---- MODULE Spec2Model ----
(***************************************************************************)
(* A model of the streaming completion orchestrator of cherry-studio       *)
(* (OpenAIProvider.completions), of the strict-alternation post-pass       *)
(* (ModelMessageService.processReqMessages) and of the citation harvester  *)
(* (messageBlock.formatCitationsFromBlock).                                *)
(*                                                                         *)
(* Text is a sequence of tokens.  The sentinel '###Response' is the        *)
(* two-token text <<"###", "Response">>, so that it can arrive split over  *)
(* two consecutive fragments; '</think>' is a one-token text.  The empty   *)
(* text <<>> stands for every falsy string (absent field or '').           *)
(*                                                                         *)
(* The request modelled has assistant.enableWebSearch off and chunks       *)
(* without vendor search payloads (lines 665-683 and 719-762 of            *)
(* OpenAIProvider.ts do not run).                                          *)
(***************************************************************************)
EXTENDS Integers, Sequences, FiniteSets, TLC

(* ----------------------------- bounds --------------------------------- *)
MaxChunks == 3        \* chunks delivered over one top-level request
MaxRounds == 2        \* deepest round index (idx) the model follows

(* The numbers of results one parseAndCallTools call may return.           *)
ToolResultCounts == {0, 2}

(* Tokens: the n-th chunk of a request carries tokens tagged with n, so     *)
(* order and concatenation are observable.                                  *)
ReasonTok == <<"t1", "t2", "t3", "t4", "t5", "t6", "t7", "t8">>
AnswerTok == <<"a1", "a2", "a3", "a4", "a5", "a6", "a7", "a8">>
Sentinel == <<"###", "Response">>
EndThink == <<"</think>">>

VARIABLES
  pc,                \* position of the completions task
  frames,            \* stack of processStream activations (locals of each round)
  events,            \* the event sink: everything passed to onChunk, in order
  hasReasoningContent, lastChunk,                  \* closure variables, 415-417
  time_first_token_millsec, time_first_token_millsec_delta,
  time_first_content_millsec, start_time_millsec,  \* closure variables, 456-462
  reqMessages,       \* the running transcript, 484-489
  strict,            \* model.id === 'deepseek-reasoner'
  streamOutput,      \* getAssistantSettings(assistant).streamOutput
  paused,            \* window.keyv.get(EVENT_NAMES.CHAT_COMPLETION_PAUSED)
  aborted,           \* abortController.signal.aborted
  now,               \* new Date().getTime()
  outcome,           \* how the promise returned by completions settled
  cleanupCalls,      \* calls of the abort controller's cleanup
  sent,              \* history: the messages of every upstream create call
  received,          \* history: the chunks consumed, each with its round
  handed,            \* history: every call of the tool executor and what it returned
  dropped,           \* history: the chunks the loop left unprocessed on a pause
  tokenLatches, contentLatches, \* history: timestamp assignments by chunks
  arg, result,       \* a pure function's argument and what it returned
  items,             \* KnowledgeQueue: base.items of the knowledge base in the store
  processing,        \* KnowledgeQueue: this.processing.get(baseId)
  queuePc,           \* KnowledgeQueue: position of the synchronous part of processQueue
  processableItem,   \* KnowledgeQueue: processQueue's local, an index of items or 0
  inFlight,          \* KnowledgeQueue: the processItem runs suspended at an await
  initialItems,      \* history: every item as it entered the store
  attempts,          \* history: per item, how often it was set to processing
  lastHanded,        \* history: the item of the last processItem call, as passed
  baseExists,        \* KnowledgeQueue: the base is in state.knowledge.bases
  processingError,   \* KnowledgeQueue: per item, processingError in the store
  queueOutcome       \* history: how the last processQueue call ended

vars == <<pc, frames, events, hasReasoningContent, lastChunk,
          time_first_token_millsec, time_first_token_millsec_delta,
          time_first_content_millsec, start_time_millsec, reqMessages, strict,
          streamOutput, paused, aborted, now, outcome, cleanupCalls, sent, received,
          handed, dropped, tokenLatches, contentLatches, arg, result,
          items, processing, queuePc, processableItem, inFlight, initialItems,
          attempts, lastHanded, baseExists, processingError, queueOutcome>>

(* --------------------------- sequences -------------------------------- *)
Includes(s, sub) ==
  \E i \in 0..(Len(s) - Len(sub)) : SubSeq(s, i + 1, i + Len(sub)) = sub

RECURSIVE Concat(_)
Concat(ss) == IF ss = <<>> THEN <<>> ELSE Head(ss) \o Concat(Tail(ss))

(* ---------------- ModelMessageService.processReqMessages --------------- *)
(* mutant: the two roles the wrong way round *)
(* mutant: the empty message gets the role of the pair *)
emptyMessageRole_same(role) == role

emptyMessageRole_swapped(role) == IF role = "user" THEN "user" ELSE "assistant"

emptyMessageRole(role) == IF role = "user" THEN "assistant" ELSE "user"

(* mutant: an empty message before every message but the first *)
needsEmptyMessage_always(messages, i) == i > 1

needsEmptyMessage(messages, i) == i > 1 /\ messages[i].role = messages[i - 1].role

RECURSIVE interleaveFrom(_, _)
interleaveFrom(messages, i) ==
  IF i > Len(messages) THEN <<>>
  ELSE (IF needsEmptyMessage(messages, i)
        THEN <<[role |-> emptyMessageRole(messages[i].role), content |-> <<>>]>>
        ELSE <<>>)
       \o <<messages[i]>> \o interleaveFrom(messages, i + 1)

interleaveUserAndAssistantMessages(messages) ==
  IF Len(messages) = 0 THEN <<>> ELSE interleaveFrom(messages, 1)

processReqMessages(needStrict, messages) ==
  IF ~needStrict THEN messages ELSE interleaveUserAndAssistantMessages(messages)

(* ------------------------------ events -------------------------------- *)
(* An event: its type, its text, thinking_millsec where the code gives    *)
(* one, and the round that emitted it (history, not part of the chunk).    *)
Ev(type, text, ms, r) ==
  [type |-> type, text |-> text, thinking_millsec |-> ms, round |-> r]

BlockComplete(usage, metrics, r) ==
  [type |-> "BLOCK_COMPLETE", text |-> <<>>, usage |-> usage, metrics |-> metrics,
   round |-> r]

(* ------------------------------ chunks -------------------------------- *)
(* A chunk: reasoning = delta.reasoning_content || delta.reasoning,        *)
(* content = delta.content, finish = !isEmpty(finish_reason),              *)
(* usage = chunk.usage (0: undefined).  No chunk has a delta.thinking.     *)
ChunkShapes == {"reasoning", "content", "both", "hash", "response", "endthink",
                "finish", "usage"}

MkChunk(shape, n) ==
  [reasoning |-> IF shape \in {"reasoning", "both"} THEN <<ReasonTok[n]>> ELSE <<>>,
   content   |-> CASE shape \in {"content", "both"}
                        -> <<AnswerTok[n]>>
                   [] shape = "hash" -> <<"###">>
                   [] shape = "response" -> <<"Response">>
                   [] shape = "endthink" -> EndThink
                   [] OTHER -> <<>>,
   finish    |-> shape = "finish",
   usage     |-> IF shape \in {"finish", "usage"} THEN n ELSE 0]

(* ------------------ isReasoningJustDone, lines 424-453 ----------------- *)
lastChunkAfter(delta, lc) == IF delta.content = <<>> THEN lc ELSE delta.content

sentinelSeen(delta, lc) ==
  Includes(lc \o delta.content, Sentinel) \/ delta.content = EndThink

hasReasoningAfter(delta, lc, hrc) ==
  IF delta.content = <<>> \/ sentinelSeen(delta, lc) THEN hrc
  ELSE hrc \/ delta.reasoning # <<>>

(* mutant: the end of reasoning is seen by the sentinels only *)
isReasoningJustDone_sentinelOnly(delta, lc, hrc) ==
  delta.content # <<>> /\ sentinelSeen(delta, lc)

isReasoningJustDone(delta, lc, hrc) ==
  IF delta.content = <<>> THEN FALSE
  ELSE IF sentinelSeen(delta, lc) THEN TRUE
  ELSE hasReasoningAfter(delta, lc, hrc)

(* ------------------- the loop body, lines 604-764 ---------------------- *)
latchFirstThinking(tft, isFirstThinking, delta) ==
  tft = 0 /\ isFirstThinking /\ delta.reasoning # <<>>

(* mutant: = instead of += *)
appendReasoning_assign(thinking, delta) ==
  IF delta.reasoning # <<>> THEN delta.reasoning ELSE thinking

appendReasoning(thinking, delta) ==
  IF delta.reasoning # <<>> THEN thinking \o delta.reasoning ELSE thinking

(* mutant: the guard of line 647 is missing *)
firstContentUnset_always(tfc) == TRUE

firstContentUnset(tfc) == tfc = 0

thinkingCompleteText(thinking) == thinking

thinkingAfterComplete(thinking) == <<>>

latchFirstContentToken(isFirst, tft, tftDelta, delta) ==
  delta.content # <<>> /\ isFirst /\ tft = 0 /\ tftDelta = 0

(* mutant: = instead of += *)
appendContent_assign(text, delta) ==
  IF delta.content # <<>> THEN delta.content ELSE text

appendContent(text, delta) ==
  IF delta.content # <<>> THEN text \o delta.content ELSE text

NewFrame ==
  [content |-> <<>>, thinkingContent |-> <<>>,
   final_time_completion_millsec_delta |-> 0,
   final_time_thinking_millsec_delta |-> 0, lastUsage |-> 0,
   isFirstChunk |-> TRUE, isFirstThinkingChunk |-> TRUE]

idx == Len(frames) - 1
Top == frames[Len(frames)]

(* One iteration of the for await loop on chunk delta at time ct: the new  *)
(* values of everything it writes, and the events it emits, in order.      *)
Iteration(f, delta, ct) ==
  LET r == idx
      l1 == latchFirstThinking(time_first_token_millsec, f.isFirstThinkingChunk, delta)
      tft1 == IF l1 THEN ct ELSE time_first_token_millsec
      tftd1 == IF l1 THEN ct - start_time_millsec ELSE time_first_token_millsec_delta
      ift1 == IF l1 THEN FALSE ELSE f.isFirstThinkingChunk
      hasR == delta.reasoning # <<>>
      th1 == appendReasoning(f.thinkingContent, delta)
      hrc1 == IF hasR THEN TRUE ELSE hasReasoningContent
      ev1 == IF hasR THEN <<Ev("THINKING_DELTA", delta.reasoning, ct - tft1, r)>> ELSE <<>>
      jd == isReasoningJustDone(delta, lastChunk, hrc1)
      lc1 == lastChunkAfter(delta, lastChunk)
      hrc2 == hasReasoningAfter(delta, lastChunk, hrc1)
      tc == jd /\ firstContentUnset(time_first_content_millsec)
      tfc1 == IF tc THEN ct ELSE time_first_content_millsec
      ftt1 == IF tc THEN ct - tft1 ELSE f.final_time_thinking_millsec_delta
      ev2 == IF tc THEN <<Ev("THINKING_COMPLETE", thinkingCompleteText(th1), ct - tft1, r)>>
             ELSE <<>>
      th2 == IF tc THEN thinkingAfterComplete(th1) ELSE th1
      ift2 == IF tc THEN TRUE ELSE ift1
      hrc3 == IF tc THEN FALSE ELSE hrc2
      hasC == delta.content # <<>>
      l2 == latchFirstContentToken(f.isFirstChunk, tft1, tftd1, delta)
      ifc1 == IF l2 THEN FALSE ELSE f.isFirstChunk
      tft2 == IF l2 THEN ct ELSE tft1
      tftd2 == IF l2 THEN ct - start_time_millsec ELSE tftd1
      c1 == appendContent(f.content, delta)
      ev3 == IF hasC THEN <<Ev("TEXT_DELTA", delta.content, 0, r)>> ELSE <<>>
      ev4 == IF delta.finish THEN <<Ev("TEXT_COMPLETE", c1, 0, r)>> ELSE <<>>
      ftc1 == IF delta.finish THEN ct - start_time_millsec
              ELSE f.final_time_completion_millsec_delta
      lu1 == IF delta.finish /\ delta.usage # 0 THEN delta.usage ELSE f.lastUsage
  IN [frame |-> [content |-> c1, thinkingContent |-> th2,
                 final_time_completion_millsec_delta |-> ftc1,
                 final_time_thinking_millsec_delta |-> ftt1, lastUsage |-> lu1,
                 isFirstChunk |-> ifc1, isFirstThinkingChunk |-> ift2],
      hasReasoningContent |-> hrc3, lastChunk |-> lc1,
      time_first_token_millsec |-> tft2, time_first_token_millsec_delta |-> tftd2,
      time_first_content_millsec |-> tfc1,
      events |-> ev1 \o ev2 \o ev3 \o ev4,
      tokenLatched |-> (IF l1 THEN 1 ELSE 0) + (IF l2 THEN 1 ELSE 0),
      contentLatched |-> IF tc THEN 1 ELSE 0]

(* ----------------------- the request, lines 364-828 -------------------- *)
MsgTok == <<"m1", "m2", "m3", "m4", "m5">>
ToolTok == <<"r1", "r2", "r3", "r4">>

Msg(role, text) == [role |-> role, content |-> text]

(* reqMessages as built at lines 484-489, before the first post-pass: a   *)
(* system message and two user messages                                    *)
PlainTranscript ==
  <<Msg("system", <<MsgTok[1]>>), Msg("user", <<MsgTok[2]>>), Msg("user", <<MsgTok[3]>>)>>

(* the same, and two transcripts of a request without system prompt *)
InitialTranscripts ==
  { PlainTranscript,
    <<Msg("user", <<MsgTok[1]>>)>>,
    <<Msg("user", <<MsgTok[1]>>), Msg("assistant", <<MsgTok[2]>>),
      Msg("user", <<MsgTok[3]>>)>> }

(* the role mcpToolCallResponseToOpenAIMessage gives a tool result message *)
ToolRoles == {"user"}

(* The state before the request starts.  The clock: every chunk (and the  *)
(* non-streaming response) arrives one millisecond after the previous one. *)
NoRequest ==
  /\ frames = <<>>
  /\ events = <<>>
  /\ hasReasoningContent = FALSE
  /\ lastChunk = <<>>
  /\ time_first_token_millsec = 0
  /\ time_first_token_millsec_delta = 0
  /\ time_first_content_millsec = 0
  /\ start_time_millsec = 1
  /\ now = 1
  /\ paused = FALSE
  /\ aborted = FALSE
  /\ outcome = "pending"
  /\ cleanupCalls = 0
  /\ sent = <<>>
  /\ received = <<>>
  /\ handed = <<>>
  /\ dropped = <<>>
  /\ tokenLatches = 0
  /\ contentLatches = 0

(* the knowledge queue of a store without items, right after construction *)
EmptyQueue ==
  /\ items = <<>>
  /\ processing = FALSE
  /\ queuePc = "idle"
  /\ processableItem = 0
  /\ inFlight = <<>>
  /\ initialItems = <<>>
  /\ attempts = <<>>
  /\ lastHanded = [processingStatus |-> "none", retryCount |-> 0]
  /\ baseExists = TRUE
  /\ processingError = <<>>
  /\ queueOutcome = "none"

Idle == NoRequest /\ EmptyQueue

Init ==
  /\ pc = "start"
  /\ Idle
  /\ reqMessages \in InitialTranscripts
  /\ strict \in BOOLEAN
  /\ streamOutput \in BOOLEAN
  /\ arg = <<>>
  /\ result = <<>>

(* a request for a model that needs no strict alternation *)
InitPlain == Init /\ ~strict /\ reqMessages = PlainTranscript

closure == <<hasReasoningContent, lastChunk, time_first_token_millsec,
             time_first_token_millsec_delta, time_first_content_millsec,
             tokenLatches, contentLatches>>
knowledgeQueue == <<items, processing, queuePc, processableItem, inFlight, initialItems,
                    attempts, lastHanded, baseExists, processingError, queueOutcome>>
config == <<strict, streamOutput, start_time_millsec, arg, result, knowledgeQueue>>
history == <<sent, received, handed, dropped>>

(* mutant: the response-created event is not emitted *)
responseCreated_silent(sink) == sink

(* line 797: onChunk({ type: ChunkType.LLM_RESPONSE_CREATED }) *)
responseCreated(sink) == Append(sink, Ev("LLM_RESPONSE_CREATED", <<>>, 0, 0))

(* lines 792-822: post-pass, response-created, the first create call *)
Start(ok) ==
  /\ pc = "start"
  /\ reqMessages' = processReqMessages(strict, reqMessages)
  /\ events' = responseCreated(events)
  /\ IF ok
     THEN /\ sent' = Append(sent, reqMessages')
          /\ pc' = IF streamOutput THEN "stream" ELSE "response"
          /\ frames' = IF streamOutput THEN <<NewFrame>> ELSE <<>>
          /\ UNCHANGED outcome
     ELSE /\ pc' = "rejected"
          /\ outcome' = "create_error"
          /\ UNCHANGED <<sent, frames>>
  /\ UNCHANGED <<closure, config, paused, aborted, now, cleanupCalls, received, handed,
                 dropped>>

(* the message of a non-streaming response: stream.choices[0].message and  *)
(* stream.usage, kept in the shape of a chunk                              *)
MkResponse(hasContent, usage) ==
  [reasoning |-> <<>>, content |-> IF hasContent THEN <<AnswerTok[1]>> ELSE <<>>,
   finish |-> TRUE, usage |-> usage]

(* lines 562-581 and 822: the non-streaming response *)
NonStreamResponse ==
  /\ pc = "response"
  /\ \E hasContent \in BOOLEAN, usage \in {0, 1} :
       LET message == MkResponse(hasContent, usage)
       IN /\ now' = now + 1
          /\ received' = Append(received, [round |-> 0, chunk |-> message, time |-> now'])
          /\ events' = events
               \o (IF message.content # <<>>
                   THEN <<Ev("TEXT_COMPLETE", message.content, 0, 0)>> ELSE <<>>)
               \o <<BlockComplete(usage,
                      [completion_tokens |-> usage,
                       time_completion_millsec |-> now' - start_time_millsec,
                       time_first_token_millsec |-> 0], 0)>>
  /\ pc' = "done"
  /\ outcome' = "resolved"
  /\ cleanupCalls' = cleanupCalls + 1
  /\ UNCHANGED <<frames, closure, config, reqMessages, paused, aborted, sent, handed,
                 dropped>>

(* lines 598-766, one iteration on a chunk that is consumed *)
Chunk(shape) ==
  /\ pc = "stream"
  /\ ~paused
  /\ ~aborted
  /\ Len(received) < MaxChunks
  /\ LET delta == MkChunk(shape, Len(received) + 1)
         it == Iteration(Top, delta, now + 1)
     IN   /\ now' = now + 1
          /\ frames' = [frames EXCEPT ![Len(frames)] = it.frame]
          /\ events' = events \o it.events
          /\ hasReasoningContent' = it.hasReasoningContent
          /\ lastChunk' = it.lastChunk
          /\ time_first_token_millsec' = it.time_first_token_millsec
          /\ time_first_token_millsec_delta' = it.time_first_token_millsec_delta
          /\ time_first_content_millsec' = it.time_first_content_millsec
          /\ tokenLatches' = tokenLatches + it.tokenLatched
          /\ contentLatches' = contentLatches + it.contentLatched
          /\ received' = Append(received, [round |-> idx, chunk |-> delta, time |-> now + 1])
  /\ UNCHANGED <<pc, config, reqMessages, paused, aborted, outcome, cleanupCalls, sent,
                 handed, dropped>>

(* mutant: the pause flag is looked at after the chunk has been processed *)
pausedChunkEvents_processed(chunkEvents) == chunkEvents

(* lines 600-602: the break comes before anything is done with the chunk *)
pausedChunkEvents(chunkEvents) == <<>>

(* lines 600-602: a chunk delivered while the pause flag is set *)
ChunkWhilePaused(shape) ==
  /\ pc = "stream"
  /\ paused
  /\ ~aborted
  /\ LET delta == MkChunk(shape, Len(received) + 1)
     IN /\ events' = events \o pausedChunkEvents(Iteration(Top, delta, now + 1).events)
        /\ dropped' = Append(dropped, [round |-> idx, chunk |-> delta, at |-> Len(events)])
  /\ pc' = "tools"
  /\ UNCHANGED <<frames, closure, config, reqMessages, paused, aborted, now, outcome,
                 cleanupCalls, sent, received, handed>>

(* the stream ends: the for await loop is left normally *)
StreamEnd ==
  /\ pc = "stream"
  /\ pc' = "tools"
  /\ UNCHANGED <<frames, events, closure, config, reqMessages, paused, aborted, now,
                 outcome, cleanupCalls, history>>

(* the user pauses the chat: the flag is read at the next chunk *)
Pause ==
  /\ pc = "stream"
  /\ ~paused
  /\ paused' = TRUE
  /\ UNCHANGED <<pc, frames, events, closure, config, reqMessages, aborted, now, outcome,
                 cleanupCalls, history>>

(* lines 477-479 and 545, 817: the signal handed to every create call      *)
(* fires while a round waits for its next chunk.  What the stream does     *)
(* then is the SDK's business: the iteration either rejects (StreamThrows) *)
(* or just ends (StreamEnd), the case lines 824-827 are written for.       *)
Abort ==
  /\ pc = "stream"
  /\ ~aborted
  /\ aborted' = TRUE
  /\ UNCHANGED <<pc, frames, events, closure, config, reqMessages, paused, now, outcome,
                 cleanupCalls, history>>

(* the iteration throws (the abort error once the signal has fired, a      *)
(* transport failure otherwise): no handler in processStream or            *)
(* processToolUses, so every activation rejects and .finally(cleanup) of   *)
(* line 822 runs                                                           *)
StreamThrows(how) ==
  /\ pc = "stream"
  /\ (how = "abort") = aborted
  /\ pc' = "rejected"
  /\ outcome' = how
  /\ frames' = <<>>
  /\ cleanupCalls' = cleanupCalls + 1
  /\ UNCHANGED <<events, closure, config, reqMessages, paused, aborted, now, history>>

toolResultMessages(k, role) == [j \in 1..k |-> Msg(role, <<ToolTok[j]>>)]

(* mutant: the transcript is rebuilt from the new messages alone *)
transcriptAfterTools_rebuilt(messages, text, results) ==
  <<Msg("assistant", text)>> \o results

(* mutant: the tool results are pushed before the assistant message *)
transcriptAfterTools_resultsFirst(messages, text, results) ==
  messages \o results \o <<Msg("assistant", text)>>

transcriptAfterTools(messages, text, results) ==
  messages \o <<Msg("assistant", text)>> \o results

(* mutant: the guard of line 513 is missing *)
hasToolResults_always(k) == TRUE

(* line 513: toolResults.length > 0 *)
hasToolResults(k) == k > 0

(* lines 501-551: parseAndCallTools returned k results *)
ToolsReturn(k, role, ok) ==
  /\ pc = "tools"
  /\ handed' = Append(handed, [round |-> idx, content |-> Top.content,
                               results |-> toolResultMessages(k, role)])
  /\ IF ~hasToolResults(k)
     THEN /\ pc' = "complete"
          /\ UNCHANGED <<frames, reqMessages, sent, outcome, cleanupCalls>>
     ELSE /\ idx < MaxRounds
          /\ reqMessages' = processReqMessages(strict,
                 transcriptAfterTools(reqMessages, Top.content, toolResultMessages(k, role)))
          /\ IF ok
             THEN /\ sent' = Append(sent, reqMessages')
                  /\ frames' = Append(frames, NewFrame)
                  /\ pc' = "stream"
                  /\ UNCHANGED <<outcome, cleanupCalls>>
             ELSE /\ pc' = "rejected"
                  /\ outcome' = IF aborted THEN "abort" ELSE "create_error"
                  /\ frames' = <<>>
                  /\ cleanupCalls' = cleanupCalls + 1
                  /\ UNCHANGED sent
  /\ UNCHANGED <<events, closure, config, paused, aborted, now, received, dropped>>

stampAfterRound(t) == 0

(* lines 824-827: what awaiting signalPromise gives once processStream has *)
(* returned                                                                *)
signalOutcome(fired) == IF fired THEN "abort" ELSE "resolved"

(* lines 771-789, and lines 822-827 when the outermost activation returns *)
Complete ==
  /\ pc = "complete"
  /\ events' = Append(events,
       BlockComplete(Top.lastUsage,
         [completion_tokens |-> Top.lastUsage,
          time_completion_millsec |-> Top.final_time_completion_millsec_delta,
          time_first_token_millsec |-> time_first_token_millsec_delta,
          time_thinking_millsec |-> Top.final_time_thinking_millsec_delta], idx))
  /\ time_first_token_millsec' = stampAfterRound(time_first_token_millsec)
  /\ time_first_content_millsec' = stampAfterRound(time_first_content_millsec)
  /\ frames' = SubSeq(frames, 1, Len(frames) - 1)
  /\ IF Len(frames) = 1
     THEN /\ outcome' = signalOutcome(aborted)
          /\ pc' = IF outcome' = "resolved" THEN "done" ELSE "rejected"
          /\ cleanupCalls' = cleanupCalls + 1
     ELSE UNCHANGED <<pc, outcome, cleanupCalls>>
  /\ UNCHANGED <<hasReasoningContent, lastChunk, time_first_token_millsec_delta,
                 tokenLatches, contentLatches, config, reqMessages, paused, aborted, now,
                 history>>

(* The request when every upstream call succeeds and nobody interrupts it *)
Next ==
  \/ Start(TRUE)
  \/ NonStreamResponse
  \/ \E shape \in ChunkShapes : Chunk(shape)
  \/ StreamEnd
  \/ \E k \in ToolResultCounts, role \in ToolRoles : ToolsReturn(k, role, TRUE)
  \/ Complete

Spec == InitPlain /\ [][Next]_vars

(* ============== the request seen from its tool-call rounds ============= *)
(* Every transcript, with and without strict alternation, over streams of  *)
(* answer and finish chunks.                                               *)
ToolShapes == {"content", "finish"}

(* the roles a tool result message may have (a ChatCompletionMessageParam) *)
ToolMessageRoles == {"user", "tool", "assistant"}

InitTools == Init /\ streamOutput

NextTools ==
  \/ Start(TRUE)
  \/ \E shape \in ToolShapes : Chunk(shape)
  \/ StreamEnd
  \/ \E k \in ToolResultCounts, role \in ToolMessageRoles : ToolsReturn(k, role, TRUE)
  \/ Complete

SpecTools == InitTools /\ [][NextTools]_vars

(* ======================= properties of a request ======================= *)
Succeeded == pc = "done" /\ outcome = "resolved"

Positions(type) == {i \in DOMAIN events : events[i].type = type}

RECURSIVE ConcatTexts(_)
ConcatTexts(es) == IF es = <<>> THEN <<>> ELSE Head(es).text \o ConcatTexts(Tail(es))

(* the texts of the events of one type and round before position i, joined *)
TextsBefore(i, type, r) ==
  ConcatTexts(SelectSeq(SubSeq(events, 1, i - 1),
                        LAMBDA e : e.type = type /\ e.round = r))

Signature == [k \in DOMAIN events |-> <<events[k].type, events[k].text>>]

(* a step that consumes one chunk, the chunk, and the events it emitted *)
ChunkStep == pc = "stream" /\ Len(received') = Len(received) + 1
StepChunk == received'[Len(received')].chunk
StepEvents == SubSeq(events', Len(events) + 1, Len(events'))

(* C1: tool-loop termination.  With a configured maximum round count of    *)
(* ToolRoundLimit, a request issues at most ToolRoundLimit + 1 upstream    *)
(* requests, however often the tool executor returns results.              *)
ToolRoundLimit == 1
C1_ToolLoopBounded == Len(sent) <= ToolRoundLimit + 1

(* C2: a successful request has emitted exactly one block-complete event,  *)
(* by round 0, as its last event.                                          *)
C2_SingleBlockComplete ==
  Succeeded =>
    /\ Cardinality(Positions("BLOCK_COMPLETE")) = 1
    /\ events[Len(events)].type = "BLOCK_COMPLETE"
    /\ events[Len(events)].round = 0

ReasoningOnly(c) == c.reasoning # <<>> /\ c.content = <<>> /\ ~c.finish
AnswerOnly(c) == c.reasoning = <<>> /\ c.content # <<>> /\ ~c.finish
FinishOnly(c) == c.reasoning = <<>> /\ c.content = <<>> /\ c.finish

(* a finished single-round request whose stream was chunks 1..i reasoning  *)
(* only, chunks i+1..j answer only, chunk j+1 the finish chunk             *)
C3_Scenario(i, j) ==
  /\ Succeeded /\ streamOutput
  /\ Len(sent) = 1
  /\ 1 <= i /\ i < j /\ Len(received) = j + 1
  /\ \A k \in 1..i : ReasoningOnly(received[k].chunk)
  /\ \A k \in (i + 1)..j : AnswerOnly(received[k].chunk)
  /\ FinishOnly(received[j + 1].chunk)

C3_Expected(i, j) ==
  <<<<"LLM_RESPONSE_CREATED", <<>>>>>>
  \o [k \in 1..i |-> <<"THINKING_DELTA", received[k].chunk.reasoning>>]
  \o <<<<"THINKING_COMPLETE", Concat([k \in 1..i |-> received[k].chunk.reasoning])>>>>
  \o [k \in 1..(j - i) |-> <<"TEXT_DELTA", received[i + k].chunk.content>>]
  \o <<<<"TEXT_COMPLETE", Concat([k \in 1..(j - i) |-> received[i + k].chunk.content])>>,
       <<"BLOCK_COMPLETE", <<>>>>>>

C4_Transition ==
  LET buf == Top.thinkingContent \o StepChunk.reasoning
  IN (StepChunk.content # <<>> /\ buf # <<>> /\ Top.content = <<>>) =>
       /\ Cardinality({k \in DOMAIN StepEvents :
              /\ StepEvents[k].type = "THINKING_COMPLETE"
              /\ StepEvents[k].text = buf}) = 1
       /\ frames'[Len(frames')].thinkingContent = <<>>

C4_ReasoningCompleteEveryRound == [][ChunkStep => C4_Transition]_vars

(* what one chunk did to the two buffers: the reasoning buffer grew if it  *)
(* is longer afterwards or was flushed into a longer thinking-complete     *)
GrewThinking ==
  \/ Len(frames'[Len(frames')].thinkingContent) > Len(Top.thinkingContent)
  \/ \E k \in DOMAIN StepEvents :
       /\ StepEvents[k].type = "THINKING_COMPLETE"
       /\ Len(StepEvents[k].text) > Len(Top.thinkingContent)
GrewContent == Len(frames'[Len(frames')].content) > Len(Top.content)

(* C5: reasoning/answer exclusivity.  No chunk, one that carries both    *)
(* reasoning text and answer text included, makes both buffers grow.       *)
C5_Exclusive == [][ChunkStep => ~(GrewThinking /\ GrewContent)]_vars

(* C6: the text of every thinking-complete event is the concatenation, in  *)
(* order, of the texts of the thinking-delta events emitted before it in   *)
(* the same round.                                                         *)
C6_ThinkingCompleteIsConcat ==
  \A i \in DOMAIN events :
    events[i].type = "THINKING_COMPLETE" =>
      events[i].text = TextsBefore(i, "THINKING_DELTA", events[i].round)

C6_Witness ==
  \E i \in DOMAIN events :
    events[i].type = "THINKING_COMPLETE" /\ Len(events[i].text) >= 2

(* the arrival time of the first chunk carrying reasoning or answer text   *)
TokenTimes ==
  {received[n].time : n \in {m \in DOMAIN received :
      received[m].chunk.reasoning # <<>> \/ received[m].chunk.content # <<>>}}
FirstTokenTime ==
  IF TokenTimes = {} THEN 0 ELSE CHOOSE t \in TokenTimes : \A u \in TokenTimes : t <= u

(* C7: chunks assign the first-token timestamp and the first-content       *)
(* timestamp at most once each over the whole request, all rounds          *)
(* included; while any round is still running the first-token timestamp    *)
(* is the arrival time of the request's first token.                       *)
C7_LatchOnce ==
  /\ tokenLatches <= 1
  /\ contentLatches <= 1
  /\ pc \in {"stream", "tools"} => time_first_token_millsec = FirstTokenTime

C7_Witness ==
  /\ pc = "stream" /\ idx = 1
  /\ tokenLatches = 1 /\ contentLatches = 1
  /\ \E i, j \in DOMAIN received :
       /\ received[i].round = 0 /\ received[j].round = 1
       /\ received[i].chunk.reasoning # <<>> /\ received[i].chunk.content # <<>>
       /\ received[j].chunk.reasoning # <<>> /\ received[j].chunk.content # <<>>
       /\ time_first_token_millsec = received[i].time
       /\ time_first_content_millsec = received[i].time

(* the calls of the tool executor that returned results: the n-th of them  *)
(* is followed by the (n+1)-th upstream request                            *)
ToolRounds == SelectSeq(handed, LAMBDA h : h.results # <<>>)

(* C11: the transcript is append-only across rounds: the messages sent in  *)
(* round n are a prefix of the messages sent in round n+1, also when the   *)
(* strict-alternation post-pass has run again on the extended transcript.  *)
C11_TranscriptAppendOnly ==
  \A n \in 1..(Len(sent) - 1) :
    /\ Len(sent[n]) <= Len(sent[n + 1])
    /\ SubSeq(sent[n + 1], 1, Len(sent[n])) = sent[n]

C11_Witness ==
  /\ strict /\ Len(sent) = 3
  /\ Len(sent[1]) > Len(PlainTranscript)
  /\ Len(sent[2]) > Len(sent[1]) + 3
  /\ Len(sent[3]) > Len(sent[2]) + 3

(* the assistant message and the tool result messages of the n-th tool round *)
NewMessages(n) == <<Msg("assistant", ToolRounds[n].content)>> \o ToolRounds[n].results

(* C12 as claimed: the next transcript is the previous one followed by     *)
(* exactly the assistant message and the k tool result messages.           *)
C12_ExactlyKPlusOne ==
  \A n \in 1..(Len(sent) - 1) : sent[n + 1] = sent[n] \o NewMessages(n)

(* messages, with an empty message of the opposite role in front of each   *)
(* one whose role is the role of the message before it                     *)
RECURSIVE Spaced(_, _)
Spaced(prevRole, messages) ==
  IF messages = <<>> THEN <<>>
  ELSE LET m == Head(messages)
       IN (IF m.role = prevRole
           THEN <<Msg(IF m.role = "user" THEN "assistant" ELSE "user", <<>>)>>
           ELSE <<>>)
          \o <<m>> \o Spaced(m.role, Tail(messages))

(* C12: the next transcript is the previous one followed by the assistant  *)
(* message holding the answer text and the k tool result messages in       *)
(* result order; under strict alternation each of these new messages whose *)
(* role is the role of the message before it is preceded by one empty      *)
(* message of the opposite role; nothing else is added.                    *)
C12_KPlusOneSpaced ==
  \A n \in 1..(Len(sent) - 1) :
    sent[n + 1] = sent[n] \o
      (IF strict THEN Spaced(sent[n][Len(sent[n])].role, NewMessages(n))
       ELSE NewMessages(n))

C12_Witness ==
  /\ Len(sent) = 2 /\ strict
  /\ Len(ToolRounds[1].results) = 2
  /\ ToolRounds[1].content # <<>>
  /\ Len(sent[2]) = Len(sent[1]) + 4

(* the last usage snapshot any consumed chunk carried (0: none) *)
LastUsageSeen ==
  LET U == {n \in DOMAIN received : received[n].chunk.usage # 0}
  IN IF U = {} THEN 0
     ELSE received[CHOOSE n \in U : \A m \in U : m <= n].chunk.usage

(* C15: the usage of the terminal block-complete event of a successful     *)
(* request is the last usage snapshot seen on any chunk of any round,      *)
(* finish chunk or not.                                                    *)
C15_TerminalUsage ==
  Succeeded => events[Len(events)].usage = LastUsageSeen

(* C16: a non-streaming response without message content raises an error:  *)
(* no block-complete event is emitted and the call does not succeed.       *)
C16_EmptyResponseRaises ==
  \A n \in DOMAIN received :
    (~streamOutput /\ received[n].chunk.content = <<>>) =>
      (Positions("BLOCK_COMPLETE") = {} /\ outcome # "resolved")

(* C19: once a round has emitted text-complete, it emits no further        *)
(* thinking-delta, text-delta or text-complete event.                      *)
C19_DoneIsTerminal ==
  \A i, j \in DOMAIN events :
    (i < j /\ events[i].type = "TEXT_COMPLETE" /\ events[j].round = events[i].round) =>
      events[j].type \notin {"THINKING_DELTA", "TEXT_DELTA", "TEXT_COMPLETE"}

C21_ToolsOnceAfterDone ==
  /\ \A n \in DOMAIN handed :
       \E i \in DOMAIN events :
         events[i].type = "TEXT_COMPLETE" /\ events[i].round = handed[n].round
  /\ \A i \in DOMAIN events :
       events[i].type = "BLOCK_COMPLETE" =>
         Cardinality({n \in DOMAIN handed : handed[n].round = events[i].round}) = 1

(* C22: when the tool executor returns no result, the call changes neither *)
(* the transcript nor the requests sent nor the events, and the round's    *)
(* next step is to emit its block-complete event.                          *)
C22_NoResultsFinalizes ==
  /\ [][(Len(handed') = Len(handed) + 1 /\ handed'[Len(handed')].results = <<>>) =>
          /\ reqMessages' = reqMessages /\ sent' = sent
          /\ events' = events /\ frames' = frames
          /\ pc' = "complete"]_vars
  /\ [][pc = "complete" =>
          /\ events' = Append(events, events'[Len(events')])
          /\ events'[Len(events')].type = "BLOCK_COMPLETE"
          /\ events'[Len(events')].round = idx
          /\ sent' = sent /\ reqMessages' = reqMessages]_vars

C22_Witness ==
  /\ Len(sent) = 2 /\ Len(handed) = 2
  /\ handed[2].results = <<>> /\ handed[2].round = 1
  /\ events[Len(events)].type = "BLOCK_COMPLETE" /\ events[Len(events)].round = 1

(* the chunk that carried a reasoning text, and the arrival time of the    *)
(* first reasoning chunk of a round                                        *)
ChunkOf(text) == CHOOSE n \in DOMAIN received : received[n].chunk.reasoning = text
FirstReasoningTime(r) ==
  LET R == {n \in DOMAIN received : received[n].round = r /\ received[n].chunk.reasoning # <<>>}
  IN received[CHOOSE n \in R : \A m \in R : n <= m].time

(* C23: the thinking_millsec of every thinking-delta event is the time     *)
(* between the first reasoning chunk of the event's round and the chunk    *)
(* that emitted the event.                                                 *)
C23_ThinkingTimePerRound ==
  \A i \in DOMAIN events :
    events[i].type = "THINKING_DELTA" =>
      events[i].thinking_millsec
        = received[ChunkOf(events[i].text)].time - FirstReasoningTime(events[i].round)

(* ================= the request when it is interrupted ================== *)
(* The request with the user pausing the chat, the cancellation signal     *)
(* firing and the stream failing.  A create call made with a signal that   *)
(* has fired rejects.                                                      *)
ThrowKinds == {"abort", "transport"}

(* the chunks of an interrupted stream: plain reasoning, answer and finish *)
(* chunks, and the chunk a pause leaves unprocessed                        *)
InterruptShapes == {"reasoning", "content", "finish"}
PausedShapes == {"both"}

InitInterrupt == InitPlain /\ streamOutput

NextInterrupt ==
  \/ Start(TRUE)
  \/ \E shape \in InterruptShapes : Chunk(shape)
  \/ StreamEnd
  \/ Pause
  \/ \E shape \in PausedShapes : ChunkWhilePaused(shape)
  \/ Abort
  \/ \E how \in ThrowKinds : StreamThrows(how)
  \/ \E k \in ToolResultCounts, role \in ToolRoles : ToolsReturn(k, role, ~aborted)
  \/ Complete

SpecInterrupt == InitInterrupt /\ [][NextInterrupt]_vars

StreamEventTypes == {"THINKING_DELTA", "THINKING_COMPLETE", "TEXT_DELTA", "TEXT_COMPLETE"}

(* C13: once the cancellation signal has fired while a round consumes      *)
(* chunks no further event is emitted, no block-complete of any round      *)
(* included, and the request ends rejected with the cancellation error.    *)
C13_AbortSilences ==
  /\ [][aborted => events' = events]_vars
  /\ [](aborted /\ pc \in {"done", "rejected"} => outcome = "abort")

(* C14: a chunk delivered while the pause flag is set is not consumed, nor *)
(* is any later chunk of its round: the round emits no thinking-delta,     *)
(* thinking-complete, text-delta or text-complete after it; and neither    *)
(* setting the flag nor leaving the loop fires the cancellation signal.    *)
C14_PauseHaltsRound ==
  /\ [](\A d \in DOMAIN dropped : \A i \in DOMAIN events :
          (i > dropped[d].at /\ events[i].round = dropped[d].round) =>
             events[i].type \notin StreamEventTypes)
  /\ [][(paused' # paused \/ dropped' # dropped) => aborted' = aborted]_vars

C14_Witness ==
  /\ ~aborted /\ paused /\ outcome = "resolved"
  /\ \E d \in DOMAIN dropped :
       /\ dropped[d].chunk.content # <<>>
       /\ \E i \in DOMAIN events :
            i <= dropped[d].at /\ events[i].type = "TEXT_DELTA"
              /\ events[i].round = dropped[d].round
       /\ \E i \in DOMAIN events :
            i > dropped[d].at /\ events[i].type = "BLOCK_COMPLETE"
              /\ events[i].round = dropped[d].round

(* C18: when the iteration of the chunk stream fails with a transport      *)
(* error, the step that rejects the request first adds an error event to   *)
(* the sink, and every event emitted before stays in the sink.             *)
C18_ErrorEventOnThrow ==
  [][(outcome' = "transport" /\ outcome # "transport") =>
       /\ Len(events') = Len(events) + 1
       /\ SubSeq(events', 1, Len(events)) = events
       /\ events'[Len(events')].type = "ERROR"]_vars

(* ============ processReqMessages as a function of its input ============ *)
MaxMessages == 4
Roles == {"system", "user", "assistant", "tool"}

(* a list of messages: the given roles, the content of message i either   *)
(* empty or the token MsgTok[i]                                            *)
MessageList(role, empty) ==
  [i \in DOMAIN role |-> Msg(role[i], IF empty[i] THEN <<>> ELSE <<MsgTok[i]>>)]

orchestrator == <<frames, events, closure, strict, streamOutput, start_time_millsec,
                  reqMessages, paused, aborted, now, outcome, cleanupCalls, sent,
                  received, handed, dropped, knowledgeQueue>>

InitMsg ==
  /\ pc = "msg_call"
  /\ Idle
  /\ reqMessages = <<>> /\ strict = FALSE /\ streamOutput = FALSE
  /\ \E n \in 0..MaxMessages, needStrict \in BOOLEAN :
       \E role \in [1..n -> Roles], empty \in [1..n -> BOOLEAN] :
         arg = [needStrict |-> needStrict, messages |-> MessageList(role, empty)]
  /\ result = <<>>

CallProcessReqMessages ==
  /\ pc = "msg_call"
  /\ result' = processReqMessages(arg.needStrict, arg.messages)
  /\ pc' = "msg_return"
  /\ UNCHANGED <<orchestrator, arg>>

(* OpenAIProvider.ts lines 522-525: the next tool-call round applies the   *)
(* post-pass to the whole transcript again                                 *)
ReprocessReqMessages ==
  /\ pc = "msg_return"
  /\ result' = processReqMessages(arg.needStrict, result)
  /\ pc' = "msg_again"
  /\ UNCHANGED <<orchestrator, arg>>

NextMsg == CallProcessReqMessages \/ ReprocessReqMessages

SpecMsg == InitMsg /\ [][NextMsg]_vars

RolesOf(messages) == [i \in DOMAIN messages |-> messages[i].role]

(* C8: under strict alternation the output of processReqMessages has no    *)
(* two consecutive entries that are both user or both assistant; roles     *)
(* user, user, assistant, assistant give user, assistant (empty), user,    *)
(* assistant, user (empty), assistant.                                     *)
C8_StrictAlternation ==
  (pc = "msg_return" /\ arg.needStrict) =>
    /\ \A i \in 1..(Len(result) - 1) :
         ~(result[i].role = result[i + 1].role /\ result[i].role \in {"user", "assistant"})
    /\ RolesOf(arg.messages) = <<"user", "user", "assistant", "assistant">> =>
         /\ RolesOf(result) = <<"user", "assistant", "user", "assistant", "user", "assistant">>
         /\ result[2].content = <<>> /\ result[5].content = <<>>

C8_Witness ==
  /\ pc = "msg_return" /\ arg.needStrict
  /\ RolesOf(arg.messages) = <<"user", "user", "assistant", "assistant">>
  /\ Len(result) = 6

(* ====================== check, lines 1076-1115 ========================= *)
MaxCheckChunks == 3

(* What a non-streaming create call gives: it rejects, or resolves to      *)
(* undefined, to a body without choices field, to a body with an empty     *)
(* choices list, to a first choice without message, or to a message.       *)
CheckResponses == {"rejects", "undefined", "no_choices_field", "empty_choices",
                   "no_message", "message"}

(* the chunks of a streaming create call: with delta.content, with a delta *)
(* without content, without choices                                        *)
CheckChunks == {"content", "no_content", "no_choices"}

(* response?.choices[0].message, line 1091: "TypeError" when the chain     *)
(* throws, otherwise whether the value is truthy                           *)
firstMessage(response) ==
  CASE response = "undefined" -> "falsy"
    [] response \in {"no_choices_field", "empty_choices"} -> "TypeError"
    [] response = "no_message" -> "falsy"
    [] response = "message" -> "truthy"

CheckResult(valid, error, creates) ==
  [valid |-> valid, error |-> error, createCalls |-> creates, rejected |-> FALSE]

hasContent_any(chunks) == chunks # <<>>

(* lines 1098-1103: hasContent after the loop, set by every chunk whose    *)
(* choices?.[0]?.delta?.content is truthy                                  *)
hasContent(chunks) == \E n \in DOMAIN chunks : chunks[n] = "content"

(* lines 1096-1107: the loop has no break, so every chunk the stream       *)
(* delivers is consumed before the verdict; a throwing iteration leaves    *)
(* the loop for the catch of line 1109                                     *)
checkStream(a) ==
  LET verdict == IF ~a.streamOk THEN CheckResult(FALSE, "stream error", 1)
                 ELSE IF hasContent(a.chunks) THEN CheckResult(TRUE, "null", 1)
                 ELSE CheckResult(FALSE, "Empty streaming response", 1)
  IN  verdict @@ [consumed |-> Len(a.chunks)]

(* a: model (is one given), stream, copilotOk (checkIsCopilot resolves),   *)
(* createOk, response, chunks (the chunks the stream delivers), streamOk   *)
(* (the iteration does not throw after them)                               *)
check(a) ==
  IF ~a.model THEN CheckResult(FALSE, "No model found", 0)
  ELSE IF ~a.copilotOk THEN CheckResult(FALSE, "copilot error", 0)
  ELSE IF ~a.stream
  THEN IF a.response = "rejects" THEN CheckResult(FALSE, "upstream error", 1)
       ELSE IF firstMessage(a.response) = "TypeError" THEN CheckResult(FALSE, "TypeError", 1)
       ELSE IF firstMessage(a.response) = "falsy" THEN CheckResult(FALSE, "Empty response", 1)
       ELSE CheckResult(TRUE, "null", 1)
  ELSE IF ~a.createOk THEN CheckResult(FALSE, "upstream error", 1)
       ELSE checkStream(a)

InitCheck ==
  /\ pc = "check_call"
  /\ Idle
  /\ reqMessages = <<>> /\ strict = FALSE /\ streamOutput = FALSE
  /\ \E model \in BOOLEAN, stream \in BOOLEAN, copilotOk \in BOOLEAN, createOk \in BOOLEAN,
        response \in CheckResponses, n \in 0..MaxCheckChunks, streamOk \in BOOLEAN :
       \E chunks \in [1..n -> CheckChunks] :
         arg = [model |-> model, stream |-> stream, copilotOk |-> copilotOk,
                createOk |-> createOk, response |-> response, chunks |-> chunks,
                streamOk |-> streamOk]
  /\ result = <<>>

CallCheck ==
  /\ pc = "check_call"
  /\ result' = check(arg)
  /\ pc' = "check_return"
  /\ UNCHANGED <<orchestrator, arg>>

NextCheck == CallCheck

SpecCheck == InitCheck /\ [][NextCheck]_vars

(* the non-streaming call was made and its response holds no message *)
NoMessage ==
  /\ arg.model /\ arg.copilotOk
  /\ arg.response \in {"undefined", "no_choices_field", "empty_choices", "no_message"}

(* C17: check(model, stream = false) never rejects; a failing upstream     *)
(* call or a response without message gives valid false with an error,     *)
(* 'Empty response' when the response has no message; a missing model      *)
(* gives 'No model found' without any upstream call; valid is true, with    *)
(* error null, only when a message is present.                             *)
C17_CheckNeverRejects ==
  (pc = "check_return" /\ ~arg.stream) =>
    /\ ~result.rejected
    /\ ~arg.model => result = CheckResult(FALSE, "No model found", 0)
    /\ (arg.model /\ arg.copilotOk /\ arg.response = "rejects") =>
         (~result.valid /\ result.error # "null")
    /\ NoMessage => (~result.valid /\ result.error = "Empty response")
    /\ result.valid => (result.error = "null" /\ arg.response = "message")

(* the streaming call was made and its stream ran to its end *)
StreamCompleted == arg.copilotOk /\ arg.createOk /\ arg.streamOk

(* C39: check(model, stream = true) never rejects; it resolves to valid    *)
(* true with error null exactly when the stream ran to its end and at      *)
(* least one chunk carried non-empty content, and then every chunk of the  *)
(* stream was consumed; in every other case, a failing create call or a    *)
(* failing stream included, it resolves to valid false with an error.      *)
C39_CheckStream ==
  (pc = "check_return" /\ arg.stream /\ arg.model) =>
    /\ ~result.rejected
    /\ result.valid <=>
         (StreamCompleted /\ \E n \in DOMAIN arg.chunks : arg.chunks[n] = "content")
    /\ result.valid => (result.error = "null" /\ result.consumed = Len(arg.chunks))
    /\ ~result.valid => result.error # "null"

(* a stream of three chunks whose last one alone carries content *)
C39_Witness ==
  /\ pc = "check_return" /\ arg.stream /\ arg.model /\ StreamCompleted
  /\ arg.chunks = <<"no_choices", "no_content", "content">>
  /\ result.valid /\ result.consumed = 3

(* ============= formatCitationsFromBlock, lines 148-258 ================= *)
MaxWebResults == 3
MaxKnowledge == 2

Sources == {"GEMINI", "OPENAI", "OPENROUTER", "PERPLEXITY", "ZHIPU", "HUNYUAN",
            "WEBSEARCH"}

(* One vendor result: url (web.uri, url_citation.url, the url string or    *)
(* result.url), link (result.link), title, content; "" is a missing field. *)
RawResults ==
  { [url |-> "a.com", link |-> "", title |-> "A", content |-> "ca"],
    [url |-> "a.com", link |-> "", title |-> "", content |-> ""],
    [url |-> "https://b.com/x", link |-> "", title |-> "", content |-> "cb"],
    [url |-> "", link |-> "", title |-> "", content |-> ""],
    [url |-> "a.com", link |-> "c.com", title |-> "", content |-> ""] }

KnowledgeRefs ==
  { [sourceUrl |-> "a.com", content |-> "ka"],
    [sourceUrl |-> "k.com", content |-> "kk"],
    [sourceUrl |-> "", content |-> "k0"] }

(* a citation block; response.source = "" is a block without response *)
Block(source, results, knowledge) ==
  [source |-> source, results |-> results, knowledge |-> knowledge]

(* new URL(url).hostname: "a.com" and "c.com" have no scheme and do not    *)
(* parse, and the catch branches fall back to the raw string               *)
hostnameOf(url) == IF url = "https://b.com/x" THEN "b.com" ELSE url

webCitation(source, r, index) ==
  CASE source = "GEMINI" ->
         [number |-> index, url |-> r.url, title |-> r.title, hostname |-> "",
          content |-> "", showFavicon |-> FALSE, type |-> "websearch"]
    [] source = "OPENAI" ->
         [number |-> index, url |-> r.url, title |-> r.title,
          hostname |-> IF r.title # "" THEN "" ELSE hostnameOf(r.url),
          content |-> "", showFavicon |-> TRUE, type |-> "websearch"]
    [] source \in {"OPENROUTER", "PERPLEXITY"} ->
         [number |-> index, url |-> r.url, title |-> "", hostname |-> hostnameOf(r.url),
          content |-> "", showFavicon |-> TRUE, type |-> "websearch"]
    [] source \in {"ZHIPU", "HUNYUAN"} ->
         [number |-> index, url |-> IF r.link # "" THEN r.link ELSE r.url,
          title |-> r.title, hostname |-> "", content |-> "", showFavicon |-> TRUE,
          type |-> "websearch"]
    [] source = "WEBSEARCH" ->
         [number |-> index, url |-> r.url, title |-> r.title, hostname |-> "",
          content |-> r.content, showFavicon |-> TRUE, type |-> "websearch"]

webCitations(block) ==
  IF block.source = "" THEN <<>>
  ELSE [i \in DOMAIN block.results |-> webCitation(block.source, block.results[i], i)]

knowledgeCitations(block) ==
  [i \in DOMAIN block.knowledge |->
     [number |-> i, url |-> block.knowledge[i].sourceUrl,
      title |-> block.knowledge[i].sourceUrl, hostname |-> "",
      content |-> block.knowledge[i].content, showFavicon |-> TRUE,
      type |-> "knowledge"]]

(* mutant: the knowledge references are put in front *)
collectCitations_knowledgeFirst(block) == knowledgeCitations(block) \o webCitations(block)

(* formattedCitations before the deduplication, lines 151-245 *)
collectCitations(block) == webCitations(block) \o knowledgeCitations(block)

RECURSIVE dedupeByUrl(_, _)
dedupeByUrl(citations, urlSet) ==
  IF citations = <<>> THEN <<>>
  ELSE LET c == Head(citations)
       IN IF c.url = "" \/ c.url \in urlSet
          THEN dedupeByUrl(Tail(citations), urlSet)
          ELSE <<c>> \o dedupeByUrl(Tail(citations), urlSet \cup {c.url})

(* mutant: the numbers given before the deduplication are kept *)
renumber_missing(citations) == citations

renumber(citations) == [i \in DOMAIN citations |-> [citations[i] EXCEPT !.number = i]]

(* the argument is <<>> for an undefined block and <<block>> otherwise *)
formatCitationsFromBlock(block) ==
  IF block = <<>> THEN <<>>
  ELSE renumber(dedupeByUrl(collectCitations(block[1]), {}))

InitCite ==
  /\ pc = "cite_call"
  /\ Idle
  /\ reqMessages = <<>> /\ strict = FALSE /\ streamOutput = FALSE
  /\ \/ arg = <<>>
     \/ \E n \in 0..MaxWebResults, m \in 0..MaxKnowledge, source \in Sources \cup {""} :
          \E results \in [1..n -> RawResults], knowledge \in [1..m -> KnowledgeRefs] :
            arg = <<Block(source, results, knowledge)>>
  /\ result = <<>>

CallFormatCitations ==
  /\ pc = "cite_call"
  /\ result' = formatCitationsFromBlock(arg)
  /\ pc' = "cite_return"
  /\ UNCHANGED <<orchestrator, arg>>

NextCite == CallFormatCitations

SpecCite == InitCite /\ [][NextCite]_vars

(* the citations of the block in input order, and where a url first occurs *)
InputCitations == IF arg = <<>> THEN <<>> ELSE collectCitations(arg[1])
FirstIndex(citations, url) ==
  CHOOSE k \in DOMAIN citations :
    citations[k].url = url /\ \A m \in 1..(k - 1) : citations[m].url # url
Unnumbered(c) == [c EXCEPT !.number = 0]

(* C9: the harvested list has pairwise distinct urls, numbers 1..N in list *)
(* order, holds for every url of the input its first occurrence and        *)
(* nothing else, in the order of those first occurrences.                  *)
C9_DedupRenumber ==
  pc = "cite_return" =>
    /\ \A i, j \in DOMAIN result : i # j => result[i].url # result[j].url
    /\ \A i \in DOMAIN result : result[i].number = i
    /\ \A i \in DOMAIN result :
         /\ \E k \in DOMAIN InputCitations : InputCitations[k].url = result[i].url
         /\ Unnumbered(result[i])
              = Unnumbered(InputCitations[FirstIndex(InputCitations, result[i].url)])
    /\ \A i, j \in DOMAIN result :
         i < j => FirstIndex(InputCitations, result[i].url)
                    < FirstIndex(InputCitations, result[j].url)
    /\ \A k \in DOMAIN InputCitations :
         InputCitations[k].url # "" => \E i \in DOMAIN result : result[i].url = InputCitations[k].url

C9_Witness ==
  /\ pc = "cite_return" /\ arg # <<>>
  /\ arg[1].source = "PERPLEXITY" /\ arg[1].knowledge = <<>>
  /\ [i \in DOMAIN arg[1].results |-> arg[1].results[i].url]
       = <<"a.com", "https://b.com/x", "a.com">>
  /\ [i \in DOMAIN result |-> result[i].number] = <<1, 2>>
  /\ [i \in DOMAIN result |-> result[i].url] = <<"a.com", "https://b.com/x">>

WebUrls == {webCitations(arg[1])[k].url : k \in DOMAIN webCitations(arg[1])} \ {""}
KnowledgeUrls == {arg[1].knowledge[k].sourceUrl : k \in DOMAIN arg[1].knowledge} \ {""}

(* C10: in the harvested list every web citation precedes every knowledge  *)
(* citation, the web citations keep the order of the vendor results, and a *)
(* url that is both a web result and a knowledge hit survives as the web   *)
(* citation.                                                               *)
C10_WebBeforeKnowledge ==
  (pc = "cite_return" /\ arg # <<>>) =>
    /\ \A i, j \in DOMAIN result :
         (result[i].type = "websearch" /\ result[j].type = "knowledge") => i < j
    /\ \A i, j \in DOMAIN result :
         (i < j /\ result[i].type = "websearch" /\ result[j].type = "websearch") =>
            FirstIndex(webCitations(arg[1]), result[i].url)
              < FirstIndex(webCitations(arg[1]), result[j].url)
    /\ \A u \in WebUrls :
         \E i \in DOMAIN result : result[i].url = u /\ result[i].type = "websearch"
    /\ \A u \in KnowledgeUrls \ WebUrls :
         \E i \in DOMAIN result : result[i].url = u /\ result[i].type = "knowledge"

C10_Witness ==
  /\ pc = "cite_return" /\ arg # <<>>
  /\ "a.com" \in WebUrls \cap KnowledgeUrls
  /\ "k.com" \in KnowledgeUrls
  /\ Cardinality(WebUrls) >= 2
  /\ \E i, j \in DOMAIN result :
       /\ result[i].url = "a.com" /\ result[i].type = "websearch"
       /\ result[j].url = "k.com" /\ result[j].type = "knowledge"


(* ================= message normalization (getMessageParam) ============= *)

MaxParamMessages == 2
MaxImages == 1

(* An image block has a stored file (readable or not by                    *)
(* window.api.file.base64Image) or a url, inline (data:) or remote.  n is  *)
(* its position in the message.                                            *)
ImageKinds == {"file", "file_unreadable", "data_url", "remote_url"}

ImageBlock(kind, n) ==
  [file |-> kind \in {"file", "file_unreadable"},
   id |-> n,
   readable |-> kind # "file_unreadable",
   url |-> IF kind = "data_url" THEN <<"data:", n>>
           ELSE IF kind = "remote_url" THEN <<"https:", n>> ELSE <<>>]

(* A file block: a text or document file (readable or not by               *)
(* window.api.file.read) or a file of another type.                        *)
FileKinds == {"text", "text_unreadable", "other"}

FileBlock(kind, n) ==
  [textual |-> kind \in {"text", "text_unreadable"},
   readable |-> kind # "text_unreadable",
   name |-> <<"origin_name", n>>,
   content |-> <<"file_content", n>>]

ParamRoles == {"user", "system"}

Message(role, content, imageKinds, fileKinds) ==
  [role |-> role, content |-> content,
   images |-> [n \in DOMAIN imageKinds |-> ImageBlock(imageKinds[n], n)],
   files |-> [n \in DOMAIN fileKinds |-> FileBlock(fileKinds[n], n)]]

(* line 183: imageBlock.url.startsWith('data:') *)
startsWithData(url) == url # <<>> /\ url[1] = "data:"

(* lines 156, 166, 203: message.role === 'system' ? 'user' : role *)
paramRole(role) == IF role = "system" THEN "user" ELSE role

Rejected == [rejected |-> TRUE]
Param(role, content) == [rejected |-> FALSE, role |-> role, content |-> content]

IsTextual(fb) == fb.textual
textFiles(message) == SelectSeq(message.files, IsTextual)

(* a promise that rejects when one of the awaited reads rejects *)
readsFail(blocks) == \E n \in DOMAIN blocks : ~blocks[n].readable

RECURSIVE extractedText(_)
extractedText(blocks) ==
  IF blocks = <<>> THEN <<>>
  ELSE <<"file: ", Head(blocks).name, "\n\n", Head(blocks).content, "divider">>
       \o extractedText(Tail(blocks))

(* lines 114-137 *)
extractFileContent(message) ==
  IF readsFail(textFiles(message)) THEN Rejected
  ELSE [rejected |-> FALSE, text |-> extractedText(textFiles(message))]

(* lines 174-176 *)
textPart(content) ==
  IF content # <<>> THEN <<[type |-> "text", text |-> content]>> ELSE <<>>

HasImagePart(ib) == ib.file \/ startsWithData(ib.url)

(* lines 180-184 *)
imagePart(ib) ==
  [type |-> "image_url",
   url |-> IF ib.file THEN <<"data:", "base64", ib.id>> ELSE ib.url]

(* lines 178-187: the image parts of a message *)
imageParts(message, isVision) ==
  IF ~isVision THEN <<>>
  ELSE LET shown == SelectSeq(message.images, HasImagePart)
       IN [n \in DOMAIN shown |-> imagePart(shown[n])]

IsStoredImage(ib) == ib.file

(* lines 189-200: the text parts of the text and document files *)
fileParts(message) ==
  LET shown == textFiles(message)
  IN [n \in DOMAIN shown |->
        [type |-> "text", text |-> <<shown[n].name, "\n", shown[n].content>>]]

(* lines 145-206 *)
getMessageParam(message, isVision, isNotSupportFiles) ==
  IF message.files = <<>> /\ message.images = <<>>
  THEN Param(paramRole(message.role), message.content)
  ELSE IF isNotSupportFiles
  THEN LET fileContent == extractFileContent(message)
       IN IF fileContent.rejected THEN Rejected
          ELSE Param(paramRole(message.role),
                     message.content \o <<"divider">> \o fileContent.text)
  ELSE IF isVision /\ readsFail(SelectSeq(message.images, IsStoredImage)) THEN Rejected
  ELSE IF readsFail(textFiles(message)) THEN Rejected
  ELSE Param(paramRole(message.role),
             textPart(message.content) \o imageParts(message, isVision) \o fileParts(message))

normalizing == <<frames, events, closure, strict, streamOutput, start_time_millsec, paused,
                 aborted, now, cleanupCalls, sent, received, handed, dropped, knowledgeQueue>>

(* arg: the provider's flags and the messages normalized so far; result:   *)
(* userMessages                                                            *)
InitParam ==
  /\ pc = "normalize"
  /\ Idle
  /\ reqMessages = <<>> /\ strict = FALSE /\ streamOutput = TRUE
  /\ \E isVision \in BOOLEAN, isNotSupportFiles \in BOOLEAN :
       arg = [isVision |-> isVision, isNotSupportFiles |-> isNotSupportFiles,
              messages |-> <<>>]
  /\ result = <<>>

(* lines 405-407: one iteration of the loop over _messages *)
NormalizeMessage(message) ==
  /\ pc = "normalize"
  /\ Len(arg.messages) < MaxParamMessages
  /\ arg' = [arg EXCEPT !.messages = Append(@, message)]
  /\ LET param == getMessageParam(message, arg.isVision, arg.isNotSupportFiles)
     IN IF param.rejected
        THEN /\ pc' = "rejected"
             /\ outcome' = "read_error"
             /\ UNCHANGED result
        ELSE /\ result' = Append(result, param)
             /\ UNCHANGED <<pc, outcome>>
  /\ UNCHANGED <<normalizing, reqMessages>>

(* lines 484-489: the loop is over, reqMessages is built *)
NormalizeDone ==
  /\ pc = "normalize"
  /\ reqMessages' = <<Msg("system", <<MsgTok[1]>>)>>
                      \o [n \in DOMAIN result |-> Msg(result[n].role, result[n].content)]
  /\ pc' = "start"
  /\ UNCHANGED <<normalizing, outcome, arg, result>>

NextParam ==
  \/ \E role \in ParamRoles, content \in {<<>>, <<"main_text">>},
        i \in 0..MaxImages, f \in 0..1 :
       \E imageKinds \in [1..i -> ImageKinds], fileKinds \in [1..f -> FileKinds] :
         NormalizeMessage(Message(role, content, imageKinds, fileKinds))
  \/ NormalizeDone
  \/ Start(TRUE)

SpecParam == InitParam /\ [][NextParam]_vars

HasAttachments(message) == message.files # <<>> \/ message.images # <<>>

(* C24: a message whose attachment cannot be read is still normalized --   *)
(* the normalization does not reject and every message normalized so far    *)
(* has its parameter -- and a request whose messages include one is still   *)
(* issued.                                                                  *)
C24_ReadFailureIsEmpty ==
  /\ pc # "rejected"
  /\ pc = "normalize" => Len(result) = Len(arg.messages)

ImageParts(param) ==
  {n \in DOMAIN param.content : param.content[n].type = "image_url"}

(* C25: with a provider that accepts structured content, the parameter of  *)
(* a message with attachments has one image part per attached image when   *)
(* the model is vision-capable (a data URL of the base64 encoding for a    *)
(* stored file, the block's own url otherwise) and none when it is not.    *)
C25_OneImagePartPerImage ==
  ~arg.isNotSupportFiles =>
    \A n \in DOMAIN result :
      HasAttachments(arg.messages[n]) =>
        LET images == arg.messages[n].images
            content == result[n].content
            first == Len(textPart(arg.messages[n].content))
        IN IF arg.isVision
           THEN /\ Cardinality(ImageParts(result[n])) = Len(images)
                /\ \A i \in DOMAIN images :
                     /\ content[first + i].type = "image_url"
                     /\ content[first + i].url
                          = IF images[i].file THEN <<"data:", "base64", i>>
                            ELSE images[i].url
           ELSE ImageParts(result[n]) = {}



(* ======================= the knowledge queue =========================== *)
(* One knowledge base, which exists in the store throughout.  JavaScript   *)
(* runs processQueue, checkAllBases and stopProcessing to completion: none *)
(* of them awaits anything that is still pending, so nothing else runs     *)
(* while queuePc is not "idle".  processItem runs synchronously up to its  *)
(* first await (lines 202-209) and is then in flight until the awaited     *)
(* call settles.                                                           *)

MaxItems == 3

(* line 36 *)
MAX_RETRIES == 1

Statuses == {"pending", "processing", "completed", "failed"}

(* retryCount 0 stands for 0 and for undefined: the code reads it only as  *)
(* !item.retryCount, item.retryCount && ..., item.retryCount || 0          *)
Item(status, retryCount) == [processingStatus |-> status, retryCount |-> retryCount]

(* the store's reducer for updateItemProcessingStatus: the item gets the   *)
(* status of the payload, and its retryCount when the payload has one      *)
updateItemProcessingStatus(its, itemId, status, retryCount) ==
  [its EXCEPT ![itemId] = Item(status, retryCount)]

(* the store's reducer for clearCompletedProcessing: no status changes *)
clearCompletedProcessing(its) == its

(* mutant: items that are being processed are selected as well *)
isProcessable_processing(item) ==
  IF item.processingStatus = "failed"
  THEN item.retryCount = 0 \/ item.retryCount < MAX_RETRIES
  ELSE item.processingStatus \in {"pending", "processing"}

(* lines 58-63 and 109-115: the filter of checkAllBases and of             *)
(* findProcessableItem                                                     *)
isProcessable(item) ==
  IF item.processingStatus = "failed"
  THEN item.retryCount = 0 \/ item.retryCount < MAX_RETRIES
  ELSE item.processingStatus = "pending"

(* lines 105-117: the first processable item, 0 for null *)
findProcessableItem(its) ==
  LET P == {n \in DOMAIN its : isProcessable(its[n])}
  IN IF P = {} THEN 0 ELSE CHOOSE n \in P : \A m \in P : n <= m

(* mutant: the retry limit is not checked *)
reachedMaxRetries_never(item) == FALSE

(* line 162 *)
reachedMaxRetries(item) == item.retryCount # 0 /\ item.retryCount >= MAX_RETRIES

InitQueue ==
  /\ pc = "queue"
  /\ NoRequest
  /\ reqMessages = <<>> /\ strict = FALSE /\ streamOutput = FALSE
  /\ arg = <<>> /\ result = <<>>
  /\ baseExists \in BOOLEAN
  /\ \E n \in 0..(IF baseExists THEN MaxItems ELSE 0) :
       \E status \in [1..n -> Statuses], retryCount \in [1..n -> 0..MAX_RETRIES] :
         items = [i \in 1..n |-> Item(status[i], retryCount[i])]
  /\ processingError = [i \in DOMAIN items |-> "none"]
  /\ queueOutcome = "none"
  /\ initialItems = items
  /\ attempts = [i \in DOMAIN items |-> 0]
  /\ processing = FALSE
  /\ queuePc = "idle"
  /\ processableItem = 0
  /\ inFlight = <<>>
  /\ lastHanded = Item("none", 0)

request == <<pc, frames, events, closure, strict, streamOutput, start_time_millsec,
             reqMessages, paused, aborted, now, outcome, cleanupCalls, sent, received,
             handed, dropped, arg, result>>

(* mutant: the finally block leaves the flag as it is *)
flagAfterQueue_kept(flag) == flag

(* lines 125-128: the finally block of processQueue *)
flagAfterQueue(flag) == FALSE

(* an item is added to the base in the store (the caller then calls        *)
(* processQueue or checkAllBases)                                          *)
AddItem ==
  /\ queuePc = "idle"
  /\ baseExists
  /\ Len(items) < MaxItems
  /\ items' = Append(items, Item("pending", 0))
  /\ processingError' = Append(processingError, "none")
  /\ initialItems' = Append(initialItems, Item("pending", 0))
  /\ attempts' = Append(attempts, 0)
  /\ UNCHANGED <<request, processing, queuePc, processableItem, inFlight, lastHanded,
                 baseExists, queueOutcome>>

(* lines 83-99: processQueue up to the loop *)
ProcessQueue ==
  /\ queuePc = "idle"
  /\ IF processing
     THEN queueOutcome' = "returned" /\ UNCHANGED <<processing, queuePc>>
     ELSE IF ~baseExists
     THEN /\ processing' = flagAfterQueue(TRUE)
          /\ queueOutcome' = "Knowledge base not found"
          /\ UNCHANGED queuePc
     ELSE processing' = TRUE /\ queuePc' = "find" /\ queueOutcome' = "running"
  /\ UNCHANGED <<request, items, processableItem, inFlight, initialItems, attempts,
                 lastHanded, baseExists, processingError>>

(* lines 50-73, 83-99: checkAllBases, and processQueue up to the loop *)
CheckAllBases ==
  /\ queuePc = "idle"
  /\ IF baseExists /\ (\E n \in DOMAIN items : isProcessable(items[n])) /\ ~processing
     THEN processing' = TRUE /\ queuePc' = "find" /\ queueOutcome' = "running"
     ELSE UNCHANGED <<processing, queuePc, queueOutcome>>
  /\ UNCHANGED <<request, items, processableItem, inFlight, initialItems, attempts,
                 lastHanded, baseExists, processingError>>

(* lines 120-128: findProcessableItem and the loop test; the finally       *)
(* block when no item is found                                             *)
Find ==
  /\ queuePc = "find"
  /\ processableItem' = findProcessableItem(items)
  /\ IF processableItem' = 0
     THEN /\ processing' = flagAfterQueue(processing)
          /\ queuePc' = "idle"
          /\ queueOutcome' = "returned"
     ELSE queuePc' = "dispatch" /\ UNCHANGED <<processing, queueOutcome>>
  /\ UNCHANGED <<request, items, inFlight, initialItems, attempts, lastHanded,
                 baseExists, processingError>>

(* lines 122 and 159-209: the processItem call of the loop body, up to its *)
(* first await                                                             *)
Dispatch ==
  /\ queuePc = "dispatch"
  /\ LET item == items[processableItem]
     IN /\ lastHanded' = item
        /\ IF reachedMaxRetries(item)
           THEN UNCHANGED <<items, inFlight, attempts>>
           ELSE /\ items' = updateItemProcessingStatus(items, processableItem, "processing",
                                                       item.retryCount + 1)
                /\ attempts' = [attempts EXCEPT ![processableItem] = @ + 1]
                /\ inFlight' = Append(inFlight, [id |-> processableItem, item |-> item])
  /\ queuePc' = "find"
  /\ UNCHANGED <<request, processing, processableItem, initialItems, baseExists,
                 processingError, queueOutcome>>

Without(s, k) == [n \in 1..(Len(s) - 1) |-> IF n < k THEN s[n] ELSE s[n + 1]]

(* lines 213-238: the awaited call of run k resolved *)
ItemSucceeds(k) ==
  /\ queuePc = "idle"
  /\ k \in DOMAIN inFlight
  /\ items' = clearCompletedProcessing(
                [items EXCEPT ![inFlight[k].id].processingStatus = "completed"])
  /\ inFlight' = Without(inFlight, k)
  /\ UNCHANGED <<request, processing, queuePc, processableItem, initialItems, attempts,
                 lastHanded, baseExists, processingError, queueOutcome>>

(* lines 239-251: the awaited call of run k rejected *)
ItemFails(k) ==
  /\ queuePc = "idle"
  /\ k \in DOMAIN inFlight
  /\ items' = updateItemProcessingStatus(items, inFlight[k].id, "failed",
                                         inFlight[k].item.retryCount + 1)
  /\ processingError' = [processingError EXCEPT ![inFlight[k].id] = "error.message"]
  /\ inFlight' = Without(inFlight, k)
  /\ UNCHANGED <<request, processing, queuePc, processableItem, initialItems, attempts,
                 lastHanded, baseExists, queueOutcome>>

(* lines 136-138 *)
StopProcessing ==
  /\ queuePc = "idle"
  /\ processing' = FALSE
  /\ UNCHANGED <<request, items, queuePc, processableItem, inFlight, initialItems,
                 attempts, lastHanded, baseExists, processingError, queueOutcome>>

NextQueue ==
  \/ AddItem
  \/ ProcessQueue
  \/ CheckAllBases
  \/ Find
  \/ Dispatch
  \/ \E k \in 1..MaxItems : ItemSucceeds(k)
  \/ \E k \in 1..MaxItems : ItemFails(k)
  \/ StopProcessing

SpecQueue == InitQueue /\ [][NextQueue]_vars

(* the synchronous loop of processQueue always takes its next step *)
SpecQueueFair == SpecQueue /\ WF_vars(Find) /\ WF_vars(Dispatch)



StatusSteps ==
  { <<"pending", "processing">>, <<"failed", "processing">>,
    <<"processing", "completed">>, <<"processing", "failed">> }

(* C26: an item's status changes only from pending or failed to            *)
(* processing and from processing to completed or failed; an item whose    *)
(* retryCount has reached MAX_RETRIES is not set to processing; and no     *)
(* item is set to processing more than MAX_RETRIES times.                  *)
C26_StatusTransitions ==
  /\ [][\A n \in DOMAIN items :
          items'[n].processingStatus # items[n].processingStatus =>
            /\ <<items[n].processingStatus, items'[n].processingStatus>> \in StatusSteps
            /\ items'[n].processingStatus = "processing" =>
                 items[n].retryCount < MAX_RETRIES]_vars
  /\ [](\A n \in DOMAIN attempts : attempts[n] <= MAX_RETRIES)

C26_Witness ==
  \E n \in DOMAIN items, m \in DOMAIN items :
    /\ initialItems[n] = Item("pending", 0)
    /\ items[n].processingStatus = "completed"
    /\ initialItems[m] = Item("failed", 0)
    /\ items[m] = Item("failed", MAX_RETRIES)
    /\ attempts[m] = 1
    /\ queuePc = "idle" /\ inFlight = <<>>

(* C27: an item that entered as pending without retries, was processed     *)
(* and failed, and has not been retried MAX_RETRIES times yet (it was      *)
(* attempted at most MAX_RETRIES times, the first attempt included) is     *)
(* one that processQueue and checkAllBases select.                         *)
C27_FailedItemIsRetried ==
  \A n \in DOMAIN items :
    ( /\ initialItems[n] = Item("pending", 0)
      /\ items[n].processingStatus = "failed"
      /\ attempts[n] - 1 < MAX_RETRIES ) => isProcessable(items[n])

(* C28: while a processItem run is in flight, the base's processing flag   *)
(* is true.                                                                *)
C28_FlagWhileInFlight ==
  inFlight # <<>> => processing

(* C29: a processQueue that has started its loop ends it.                  *)
C29_ProcessQueueTerminates ==
  (queuePc # "idle") ~> (queuePc = "idle")

(* C30: no two processItem runs in flight are for the same item, and the   *)
(* item passed to processItem is never processing or completed.            *)
C30_NoDoubleProcessing ==
  /\ \A j \in DOMAIN inFlight, k \in DOMAIN inFlight :
       j # k => inFlight[j].id # inFlight[k].id
  /\ lastHanded.processingStatus \notin {"processing", "completed"}

C30_Witness ==
  /\ queuePc = "find"
  /\ Len(inFlight) = 2
  /\ lastHanded = Item("pending", 0)
  /\ \E n \in DOMAIN items : items[n].processingStatus = "completed"



(* C31: when a processQueue call has ended, returning or rejecting with    *)
(* 'Knowledge base not found', the processing flag is false; and a step    *)
(* that sets an item to failed gives it an error message, rejects no       *)
(* processQueue call and changes no other item.                            *)
C31_QueueFailureContained ==
  /\ [](queueOutcome \in {"returned", "Knowledge base not found"} => ~processing)
  /\ [][\A n \in DOMAIN items :
          (items'[n].processingStatus = "failed" /\ items[n].processingStatus # "failed") =>
            /\ processingError'[n] # "none"
            /\ queueOutcome' = queueOutcome
            /\ \A m \in DOMAIN items : m # n => items'[m] = items[m]]_vars

C31_Witness ==
  /\ queueOutcome = "returned"
  /\ \E n \in DOMAIN items, m \in DOMAIN items :
       /\ items[n].processingStatus = "failed" /\ attempts[n] = 1
       /\ processingError[n] = "error.message"
       /\ items[m].processingStatus = "processing"


(* ============ the request when upstream create calls may reject ======== *)

CreateShapes == {"content", "finish"}

NextCreate ==
  \/ \E ok \in BOOLEAN : Start(ok)
  \/ NonStreamResponse
  \/ \E shape \in CreateShapes : Chunk(shape)
  \/ StreamEnd
  \/ Abort
  \/ \E how \in ThrowKinds : StreamThrows(how)
  \/ \E k \in ToolResultCounts, role \in ToolRoles, ok \in BOOLEAN :
       (aborted => ~ok) /\ ToolsReturn(k, role, ok)
  \/ Complete

SpecCreate == InitPlain /\ [][NextCreate]_vars

(* C32: when completions has ended, in whatever way, the abort             *)
(* controller's cleanup has been called exactly once.                      *)
C32_CleanupExactlyOnce ==
  pc \in {"done", "rejected"} => cleanupCalls = 1


(* C33: once a round's loop has been left because of the pause flag, the   *)
(* tool executor is not called and no upstream request is issued.          *)
C33_PauseStopsTools ==
  [][dropped # <<>> => (handed' = handed /\ sent' = sent)]_vars

(* C34: in every round that ends with a block-complete event and emitted   *)
(* a thinking-delta, a thinking-complete of that round precedes the        *)
(* block-complete.                                                         *)
C34_ThinkingCompleteBeforeBlock ==
  \A i \in DOMAIN events :
    ( /\ events[i].type = "BLOCK_COMPLETE"
      /\ \E j \in 1..(i - 1) :
           events[j].type = "THINKING_DELTA" /\ events[j].round = events[i].round )
    => \E k \in 1..(i - 1) :
         events[k].type = "THINKING_COMPLETE" /\ events[k].round = events[i].round

(* C35: the response-created event is the first event, is emitted once,    *)
(* and is there when the first upstream request is issued; recursive       *)
(* rounds do not emit it again.                                            *)
C35_ResponseCreatedOnce ==
  (events # <<>> \/ sent # <<>>) =>
    /\ Len(events) >= 1
    /\ events[1].type = "LLM_RESPONSE_CREATED"
    /\ Cardinality(Positions("LLM_RESPONSE_CREATED")) = 1

C35_Witness ==
  /\ Len(sent) = 2
  /\ Len(frames) = 2
  /\ events[Len(events)].type = "TEXT_DELTA" /\ events[Len(events)].round = 1


(* ================= processReqMessages, further properties ============== *)

(* C36: the post-pass is idempotent: interleaving an interleaved sequence  *)
(* changes nothing, so applying processReqMessages to its own output again *)
(* inserts no message.                                                     *)
C36_InterleaveIdempotent ==
  /\ [][pc = "msg_return" => result' = result]_vars
  /\ [](LET once == interleaveUserAndAssistantMessages(arg.messages)
        IN pc = "msg_return" => interleaveUserAndAssistantMessages(once) = once)

C36_Witness ==
  /\ pc = "msg_again" /\ arg.needStrict
  /\ RolesOf(arg.messages) = <<"user", "user", "tool", "tool">>
  /\ Len(result) = 6

(* the number of adjacent equal-role pairs among the first i messages *)
EqualPairs(messages, i) ==
  Cardinality({j \in 2..i : messages[j].role = messages[j - 1].role})

(* C37: without strict alternation processReqMessages returns its input;   *)
(* with it, every input message is in the output, unchanged and in order,  *)
(* each second message of an adjacent equal-role pair is preceded by one   *)
(* empty-content message, and the output holds nothing else.               *)
C37_OnlyInsertsEmpties ==
  pc = "msg_return" =>
    LET m == arg.messages
    IN IF ~arg.needStrict THEN result = m
       ELSE /\ Len(result) = Len(m) + EqualPairs(m, Len(m))
            /\ \A i \in DOMAIN m :
                 /\ result[i + EqualPairs(m, i)] = m[i]
                 /\ (i > 1 /\ m[i].role = m[i - 1].role) =>
                      result[i + EqualPairs(m, i) - 1].content = <<>>

C37_Witness ==
  /\ pc = "msg_return" /\ arg.needStrict
  /\ RolesOf(arg.messages) = <<"assistant", "assistant", "user", "system">>
  /\ Len(result) = 5
  /\ \A i \in DOMAIN arg.messages : arg.messages[i].content # <<>>


(* ======================= generateImageByChat =========================== *)

MaxUserImages == 2
MaxAssistantImages == 1

(* an image block of the last assistant message: a data URL that atob      *)
(* decodes, no url, or a url that atob rejects                             *)
AssistantImageKinds == {"data_url", "no_url", "not_base64"}

(* what sdk.images.edit / sdk.images.generate give: a response with usage, *)
(* a response without usage, or a rejection (a failed call, a timeout, or  *)
(* the abort signal)                                                       *)
ImageResponses == {"usage", "no_usage", "rejects"}

ImageEv(type) == Ev(type, <<>>, 0, 0)

(* mutant: the catch block emits nothing *)
caught_silent(sink) == sink

(* lines 1331-1336: the catch block *)
caught(sink) == Append(sink, ImageEv("ERROR"))

(* arg: hasUserMessage, userImages (per image block with a file: whether   *)
(* FileManager.readBinaryImage resolves), assistantImages (kinds; empty    *)
(* without an assistant message), response                                 *)
InitImage ==
  /\ pc = "image_call"
  /\ Idle
  /\ reqMessages = <<>> /\ strict = FALSE /\ streamOutput = FALSE
  /\ \E hasUserMessage \in BOOLEAN, u \in 0..MaxUserImages, a \in 0..MaxAssistantImages,
        response \in ImageResponses :
       \E userImages \in [1..u -> BOOLEAN], assistantImages \in [1..a -> AssistantImageKinds] :
         arg = [hasUserMessage |-> hasUserMessage, userImages |-> userImages,
                assistantImages |-> assistantImages, response |-> response]
  /\ result = <<>>

imageFrame == <<frames, closure, strict, streamOutput, start_time_millsec, reqMessages,
                paused, aborted, now, cleanupCalls, received, handed, dropped,
                knowledgeQueue, arg>>

(* lines 1222-1234: without a user message the function returns *)
ImageStart ==
  /\ pc = "image_call"
  /\ IF arg.hasUserMessage
     THEN pc' = "image_read" /\ UNCHANGED outcome
     ELSE pc' = "done" /\ outcome' = "resolved"
  /\ UNCHANGED <<imageFrame, events, result, sent>>

(* lines 1240-1254: the files of the user's image blocks *)
userFiles(a) == [n \in DOMAIN a.userImages |-> <<"user_image", n>>]

IsDataUrl(kind) == kind = "data_url"

(* lines 1256-1274: the files decoded from the assistant's image blocks *)
assistantFiles(a) ==
  LET kept == SelectSeq(a.assistantImages, IsDataUrl)
  IN [n \in DOMAIN kept |-> <<"assistant_image", n>>]

(* lines 1239-1277: the images are collected; IMAGE_CREATED *)
ImageRead ==
  /\ pc = "image_read"
  /\ IF \/ \E n \in DOMAIN arg.userImages : ~arg.userImages[n]
        \/ \E n \in DOMAIN arg.assistantImages : arg.assistantImages[n] = "not_base64"
     THEN /\ events' = caught(events)
          /\ pc' = "done" /\ outcome' = "resolved"
          /\ UNCHANGED result
     ELSE /\ result' = userFiles(arg) \o assistantFiles(arg)
          /\ events' = Append(events, ImageEv("IMAGE_CREATED"))
          /\ pc' = "image_request"
          /\ UNCHANGED outcome
  /\ UNCHANGED <<imageFrame, sent>>

(* lines 1281-1329: images.edit with images, images.generate without;      *)
(* IMAGE_COMPLETE and BLOCK_COMPLETE                                       *)
ImageRequest ==
  /\ pc = "image_request"
  /\ sent' = Append(sent, [call |-> IF result # <<>> THEN "images.edit"
                                    ELSE "images.generate",
                           image |-> result])
  /\ IF arg.response = "rejects"
     THEN events' = caught(events)
     ELSE LET tokens == IF arg.response = "usage" THEN 1 ELSE 0
          IN events' = events \o
               << ImageEv("IMAGE_COMPLETE"),
                  BlockComplete(tokens, [completion_tokens |-> tokens,
                                         time_first_token_millsec |-> 0,
                                         time_completion_millsec |-> 0], 0) >>
  /\ pc' = "done" /\ outcome' = "resolved"
  /\ UNCHANGED <<imageFrame, result>>

NextImage == ImageStart \/ ImageRead \/ ImageRequest

SpecImage == InitImage /\ [][NextImage]_vars

EventTypes == [i \in DOMAIN events |-> events[i].type]
ImageSuccess == <<"IMAGE_CREATED", "IMAGE_COMPLETE", "BLOCK_COMPLETE">>
StepFails ==
  \/ \E n \in DOMAIN arg.userImages : ~arg.userImages[n]
  \/ \E n \in DOMAIN arg.assistantImages : arg.assistantImages[n] = "not_base64"
  \/ arg.response = "rejects"

(* C38: generateImageByChat never rejects; when it has ended its events    *)
(* are none (no user message), or image-created, image-complete,           *)
(* block-complete (every step succeeded), or a prefix of these followed    *)
(* by one error event (a step failed); nothing follows an error event.     *)
C38_ImageEvents ==
  /\ pc # "rejected"
  /\ \A i \in DOMAIN events : events[i].type = "ERROR" => i = Len(events)
  /\ pc = "done" =>
       /\ outcome = "resolved"
       /\ IF ~arg.hasUserMessage THEN events = <<>>
          ELSE IF ~StepFails THEN EventTypes = ImageSuccess
          ELSE \E n \in 0..Len(ImageSuccess) :
                 EventTypes = SubSeq(ImageSuccess, 1, n) \o <<"ERROR">>

C38_Witness ==
  /\ pc = "done"
  /\ EventTypes = <<"IMAGE_CREATED", "ERROR">>
  /\ Len(sent) = 1 /\ sent[1].call = "images.edit" /\ Len(sent[1].image) = 2

====
